---- MODULE Spec2Model ----
(***************************************************************************)
(* Model of the WIG designer: the Vehicle data model (components.py), the  *)
(* structured mesher (mesher.py) and the editor handlers, view pipeline,   *)
(* boolean merge and export of PlaneDesigner (designer.py).                *)
(*                                                                         *)
(* Numbers.  Lengths are integers in tenths (5.0 is 50), airfoil           *)
(* parameters in hundredths (0.12 is 12), angles in whole degrees.  Mesh   *)
(* coordinates are integers in units of 1/(LoopScale * (SpanRes-1)) of a   *)
(* tenth, so that the linear loft and the scaling by the chord stay exact. *)
(* The transcendental parts of the airfoil generator (half-cosine spacing, *)
(* the thickness polynomial, atan of the camber slope) and of the fuselage *)
(* ring (cos, sin) are replaced by integer stand-ins that keep what the    *)
(* code relies on: the order of the samples, the zero thickness at both    *)
(* ends, the closed ring.  Each stand-in is named where it is used.        *)
(***************************************************************************)
EXTENDS Integers, Sequences, FiniteSets, TLC

VARIABLES
    vehicle,       \* self.vehicle: [surfaces, fuselage]; fuselage is <<>> or <<f>>
    plotter,       \* the meshes the last update_3d_view added to self.plotter
    profile_read,  \* what the last _mesh_fuselage call read as fuselage.profile
    multiblock,    \* the MultiBlock of the last mesh_vehicle call
    call,          \* the last direct call of a mesher method, and what it gave
    exported,      \* the blocks the last export_obj combined
    pc,            \* position inside run_heavy_union
    blk,           \* run_heavy_union: index of the block or solid being handled
    solids,        \* run_heavy_union: the list `solids`
    unified,       \* run_heavy_union: the accumulated mesh `unified`
    progress,      \* the percent values passed to progress_callback, in order
    outcome        \* how the last run_heavy_union ended

vars == <<vehicle, plotter, profile_read, multiblock, call, exported,
          pc, blk, solids, unified, progress, outcome>>

(***************************************************************************)
(* Bounds of the model.                                                    *)
(***************************************************************************)
ChordRes == 3       \* StructuredMesher.chord_res
SpanRes == 2        \* StructuredMesher.span_res
FusRadRes == 5      \* StructuredMesher.fus_rad_res
FusLongRes == 3     \* StructuredMesher.fus_long_res
MaxSurfaces == 2    \* surfaces a vehicle holds at most
MaxStations == 3    \* stations a surface holds at most
MaxY == 20          \* largest spanwise position a new station may get
MaxProfile == 4     \* profile points a fuselage holds at most
MaxX == 15          \* largest x a new profile point may get
MaxRes == 4         \* largest resolution a mesher is constructed with

(***************************************************************************)
(* Small helpers on sequences and integers.                                *)
(***************************************************************************)
Abs(a) == IF a < 0 THEN -a ELSE a

Reverse(s) == [i \in 1..Len(s) |-> s[Len(s) + 1 - i]]

RemoveAt(s, i) == [j \in 1..(Len(s) - 1) |-> IF j < i THEN s[j] ELSE s[j + 1]]

Last(s) == s[Len(s)]

RECURSIVE SumSeq(_)
SumSeq(s) == IF s = <<>> THEN 0 ELSE Head(s) + SumSeq(Tail(s))

RECURSIVE Flatten(_)
Flatten(ss) == IF ss = <<>> THEN <<>> ELSE Head(ss) \o Flatten(Tail(ss))

\* cos and sin of a whole multiple of 90 degrees (np.cos/np.sin, exact there)
CosDeg(a) == CASE a % 360 = 0 -> 1 [] a % 360 = 180 -> -1 [] OTHER -> 0

SinDeg(a) == CASE a % 360 = 90 -> 1 [] a % 360 = 270 -> -1 [] OTHER -> 0

(***************************************************************************)
(* components.py                                                           *)
(***************************************************************************)
DefaultParams == <<0, 0, 12, 0>>

\* WingStation.__init__ (airfoil_params None is passed as <<>>)
WingStation(y_pos, chord, x_leading_edge, z_pos, twist, airfoil_params) ==
    LET prm == IF airfoil_params = <<>> THEN DefaultParams ELSE airfoil_params
    IN  [y |-> y_pos, chord |-> chord, x |-> x_leading_edge, z |-> z_pos,
         twist |-> twist, airfoil_params |-> prm,
         m |-> prm[1], p |-> prm[2], t |-> prm[3],
         r |-> IF Len(prm) > 3 THEN prm[4] ELSE 0]

\* _init_component_viz: the attributes injected into a new component
_init_component_viz(obj) ==
    obj @@ [flip_normals |-> TRUE, solid_view |-> FALSE]

\* LiftingSurface.__init__
LiftingSurface(name, stations, position, mirrored) ==
    [name |-> name, stations |-> stations, position |-> position,
     orientation |-> <<0, 0, 0>>, mirrored |-> mirrored]

\* Fuselage.__init__
Fuselage(name, profile_points, position) ==
    [name |-> name, profile |-> profile_points, position |-> position]

\* Vehicle.__init__
Vehicle == [surfaces |-> <<>>, fuselage |-> <<>>]

(***************************************************************************)
(* mesher.py: the airfoil loop, the station transform and the loft.        *)
(***************************************************************************)
\* units of a loop coordinate per chord length 1.0
LoopScale == 100 * (ChordRes - 1) * (ChordRes - 1)

\* x = (1 - cos(beta)) / 2 over ChordRes samples; stand-in: even spacing,
\* same end points 0 and 1, same order
AirfoilX(k) == 100 * (ChordRes - 1) * k

\* yt, the 4-digit thickness distribution; stand-in: 5 t x (1 - x), zero at
\* the leading edge; `yt[-1] = 0.0` forces the trailing edge
AirfoilYt(st, k) ==
    IF k = ChordRes - 1 THEN 0 ELSE 5 * st.t * k * (ChordRes - 1 - k)

\* AirfoilYc that takes the parabolas whenever p > 0, with camber m + 2
AirfoilYc_cambered(st, k) ==
    LET n == ChordRes - 1
        camber ==
            IF st.p > 0
            THEN IF 100 * k <= st.p * n
                 THEN ((st.m + 2) * 100 * (2 * st.p * k * n - 100 * k * k))
                          \div (st.p * st.p)
                 ELSE ((st.m + 2) * 100 * ((100 - 2 * st.p) * n * n
                                           + 2 * st.p * k * n - 100 * k * k))
                          \div ((100 - st.p) * (100 - st.p))
            ELSE 0
        reflex ==
            IF st.r # 0 THEN (4 * st.r * (k * k * k - k * k * n)) \div n ELSE 0
    IN  camber + reflex

\* yc, the camber line: two parabolas when m > 0 and p > 0, plus the reflex
AirfoilYc(st, k) ==
    LET n == ChordRes - 1
        camber ==
            IF st.m > 0 /\ st.p > 0
            THEN IF 100 * k <= st.p * n
                 THEN (st.m * 100 * (2 * st.p * k * n - 100 * k * k))
                          \div (st.p * st.p)
                 ELSE (st.m * 100 * ((100 - 2 * st.p) * n * n
                                     + 2 * st.p * k * n - 100 * k * k))
                          \div ((100 - st.p) * (100 - st.p))
            ELSE 0
        reflex ==
            IF st.r # 0 THEN (4 * st.r * (k * k * k - k * k * n)) \div n ELSE 0
    IN  camber + reflex

\* _get_airfoil_coords with the whole lower surface appended, its leading
\* point included
_get_airfoil_coords_whole_lower(st) ==
    LET xu == [i \in 1..ChordRes |-> AirfoilX(i - 1)]
        zu == [i \in 1..ChordRes |-> AirfoilYc(st, i - 1) + AirfoilYt(st, i - 1)]
        zl == [i \in 1..ChordRes |-> AirfoilYc(st, i - 1) - AirfoilYt(st, i - 1)]
        x_loop == Reverse(xu) \o xu
        z_loop == Reverse(zu) \o zl
    IN  [i \in 1..Len(x_loop) |-> <<x_loop[i], 0, z_loop[i]>>]

\* _get_airfoil_coords: upper surface reversed, then lower surface without its
\* leading point, trailing edge closed by averaging.  theta = atan(dyc/dx) is
\* taken as 0 (sin 0, cos 1): exact when the camber slope is 0.
_get_airfoil_coords(st) ==
    LET xu == [i \in 1..ChordRes |-> AirfoilX(i - 1)]
        zu == [i \in 1..ChordRes |-> AirfoilYc(st, i - 1) + AirfoilYt(st, i - 1)]
        xl == [i \in 1..ChordRes |-> AirfoilX(i - 1)]
        zl == [i \in 1..ChordRes |-> AirfoilYc(st, i - 1) - AirfoilYt(st, i - 1)]
        x_loop == Reverse(xu) \o Tail(xl)
        z_loop == Reverse(zu) \o Tail(zl)
        n == Len(x_loop)
        x_te == (x_loop[1] + x_loop[n]) \div 2
        z_te == (z_loop[1] + z_loop[n]) \div 2
    IN  [i \in 1..n |->
            IF i = 1 \/ i = n THEN <<x_te, 0, z_te>>
            ELSE <<x_loop[i], 0, z_loop[i]>>]

\* _position_profile: scale by the chord, rotate by -twist, translate
_position_profile(coords, st) ==
    LET c == CosDeg(-st.twist)
        s == SinDeg(-st.twist)
    IN  [i \in 1..Len(coords) |->
            LET xv == coords[i][1] * st.chord
                yv == coords[i][2] * st.chord
                zv == coords[i][3] * st.chord
            IN  <<xv * c - zv * s + st.x * LoopScale,
                  yv + st.y * LoopScale,
                  xv * s + zv * c + st.z * LoopScale>>]

\* Loft with the weights of the two profiles exchanged
Loft_from_tip(p1, p2) ==
    [j \in 1..SpanRes |->
        [k \in 1..Len(p1) |->
            <<(SpanRes - j) * p2[k][1] + (j - 1) * p1[k][1],
              (SpanRes - j) * p2[k][2] + (j - 1) * p1[k][2],
              (SpanRes - j) * p2[k][3] + (j - 1) * p1[k][3]>>]]

\* the slices of _loft_segment: (1 - t) p1 + t p2, t = j / (span_res - 1);
\* coordinates are kept multiplied by span_res - 1
Loft(p1, p2) ==
    [j \in 1..SpanRes |->
        [k \in 1..Len(p1) |->
            <<(SpanRes - j) * p1[k][1] + (j - 1) * p2[k][1],
              (SpanRes - j) * p1[k][2] + (j - 1) * p2[k][2],
              (SpanRes - j) * p1[k][3] + (j - 1) * p2[k][3]>>]]

\* _loft_segment
_loft_segment(st1, st2) ==
    Loft(_position_profile(_get_airfoil_coords(st1), st1),
         _position_profile(_get_airfoil_coords(st2), st2))

RotateX(pt, a) ==
    <<pt[1], pt[2] * CosDeg(a) - pt[3] * SinDeg(a),
      pt[2] * SinDeg(a) + pt[3] * CosDeg(a)>>

RotateY(pt, a) ==
    <<pt[1] * CosDeg(a) + pt[3] * SinDeg(a), pt[2],
      pt[3] * CosDeg(a) - pt[1] * SinDeg(a)>>

RotateZ(pt, a) ==
    <<pt[1] * CosDeg(a) - pt[2] * SinDeg(a),
      pt[1] * SinDeg(a) + pt[2] * CosDeg(a), pt[3]>>

\* _transform_grid: rotate_x, rotate_y, rotate_z, then translate
_transform_grid(points, surface) ==
    LET u == LoopScale * (SpanRes - 1)
    IN  [i \in 1..Len(points) |->
            LET q == RotateZ(RotateY(RotateX(points[i], surface.orientation[1]),
                                     surface.orientation[2]),
                             surface.orientation[3])
            IN  <<q[1] + surface.position[1] * u,
                  q[2] + surface.position[2] * u,
                  q[3] + surface.position[3] * u>>]

(***************************************************************************)
(* Meshes.  A pv.StructuredGrid is [kind "grid", dims <<n1, n2>>, points]; *)
(* its points are in the flat order of grid.points (index (j-1)*n1 + k).   *)
(* A pv.PolyData is [kind "poly", points, faces]; a face is the sequence   *)
(* of its point indices.  caps counts the cap polygons added, n_cells is   *)
(* mesh.n_cells.                                                           *)
(***************************************************************************)
StructuredGrid(n1, n2, points) ==
    [kind |-> "grid", dims |-> <<n1, n2>>, points |-> points, faces |-> <<>>,
     caps |-> 0, n_cells |-> (n1 - 1) * (n2 - 1)]

\* what a mesher call leaves behind when it raises
Raised == [kind |-> "raise", dims |-> <<0, 0>>, points |-> <<>>, faces |-> <<>>,
           caps |-> 0, n_cells |-> 0]

\* grid.extract_surface(): one quad per cell of the structured grid
ExtractSurface(grid) ==
    LET n1 == grid.dims[1]
        n2 == grid.dims[2]
        quad(c) ==
            LET j == (c - 1) \div (n1 - 1)
                k == (c - 1) % (n1 - 1)
                a == j * n1 + k + 1
            IN  <<a, a + 1, a + 1 + n1, a + n1>>
    IN  [kind |-> "poly", dims |-> grid.dims, points |-> grid.points,
         faces |-> [c \in 1..((n1 - 1) * (n2 - 1)) |-> quad(c)],
         caps |-> 0, n_cells |-> (n1 - 1) * (n2 - 1)]

\* _add_cap: one polygon over the ring's points (reversed when flip), appended
_add_cap(poly_body, ring_points, flip) ==
    LET n_pts == Len(ring_points)
        off == Len(poly_body.points)
        indices == [i \in 1..n_pts |-> off + i]
        face == IF flip THEN Reverse(indices) ELSE indices
    IN  [poly_body EXCEPT !.points = @ \o ring_points,
                          !.faces = Append(@, face),
                          !.caps = @ + 1,
                          !.n_cells = @ + 1]

\* poly.triangulate(): every polygon as a fan of triangles, winding kept
Triangulate(poly) ==
    LET fan(f) == [i \in 1..(Len(f) - 2) |-> <<f[1], f[i + 1], f[i + 2]>>]
        tris == Flatten([c \in 1..Len(poly.faces) |-> fan(poly.faces[c])])
    IN  [poly EXCEPT !.faces = tris, !.n_cells = Len(tris)]

\* the points of pts from i on merged into kept: a point equal to a kept one
\* takes that one's index, any other is kept after them
RECURSIVE MergePoints(_, _, _, _)
MergePoints(pts, i, kept, idx) ==
    IF i > Len(pts) THEN [points |-> kept, idx |-> idx]
    ELSE IF \E n \in 1..Len(kept) : kept[n] = pts[i]
    THEN MergePoints(pts, i + 1, kept,
                     Append(idx, CHOOSE n \in 1..Len(kept) : kept[n] = pts[i]))
    ELSE MergePoints(pts, i + 1, Append(kept, pts[i]), Append(idx, Len(kept) + 1))

\* the faces renumbered by idx, those with a repeated vertex dropped
RemapFaces(faces, idx) ==
    LET proper(f) == Cardinality({f[v] : v \in 1..Len(f)}) = Len(f)
    IN  SelectSeq([c \in 1..Len(faces) |->
                      [v \in 1..Len(faces[c]) |-> idx[faces[c][v]]]], proper)

Merged(poly, m) ==
    [poly EXCEPT !.points = m.points, !.faces = RemapFaces(@, m.idx)]

\* poly.clean(): coincident points merged into the first of them, faces
\* renumbered, triangles that collapsed dropped from the faces (VTK keeps
\* them as line cells, so n_cells stays)
Clean(poly) == Merged(poly, MergePoints(poly.points, 1, <<>>, <<>>))

NegateY(points) ==
    [i \in 1..Len(points) |-> [points[i] EXCEPT ![2] = -@]]

\* mesh.reflect((0, 1, 0), point=(0, 0, 0), inplace=True)
Reflect(mesh) == [mesh EXCEPT !.points = NegateY(@)]

\* mesh.flip_faces(inplace=True): every face's vertex order reversed
FlipFaces(mesh) ==
    [mesh EXCEPT !.faces = [c \in 1..Len(@) |-> Reverse(@[c])]]

\* flip_winding as a rotation of the chordwise index by one
flip_winding_rotated(g) ==
    IF g.kind = "grid"
    THEN LET n1 == g.dims[1]
         IN  [g EXCEPT !.points =
                 [i \in 1..Len(@) |->
                     @[((i - 1) \div n1) * n1 + ((((i - 1) % n1) + 1) % n1) + 1]]]
    ELSE g

\* flip_winding of update_3d_view, and the same expression inlined in
\* get_grid: points.reshape(d2, d1, d0, 3)[:, :, ::-1, :].reshape(-1, 3)
flip_winding(g) ==
    IF g.kind = "grid"
    THEN LET n1 == g.dims[1]
         IN  [g EXCEPT !.points =
                 [i \in 1..Len(@) |->
                     @[((i - 1) \div n1) * n1 + (n1 - 1 - ((i - 1) % n1)) + 1]]]
    ELSE g

\* the first n points of grid.points (grid.points[:n])
FirstRing(grid, n) == SubSeq(grid.points, 1, n)

\* the last n points of grid.points (grid.points[-n:])
LastRing(grid, n) == SubSeq(grid.points, Len(grid.points) - n + 1, Len(grid.points))

\* RootOffPlane that takes every root as off the plane
RootOffPlane_always(root_pts) == TRUE

\* abs(np.mean(root_pts[:, 1])) > 1e-3, in mesh units
RootOffPlane(root_pts) ==
    Abs(SumSeq([i \in 1..Len(root_pts) |-> root_pts[i][2]])) * 1000
        > Len(root_pts) * 10 * LoopScale * (SpanRes - 1)

\* LoftSlices that keeps the first slice of every segment
LoftSlices_keep_shared(stations) ==
    Flatten([i \in 1..(Len(stations) - 1) |->
                _loft_segment(stations[i], stations[i + 1])])

\* the loop of _mesh_surface: the slices of every segment, the first slice of
\* every segment after the first dropped
LoftSlices(stations) ==
    Flatten([i \in 1..(Len(stations) - 1) |->
                IF i > 1 THEN Tail(_loft_segment(stations[i], stations[i + 1]))
                ELSE _loft_segment(stations[i], stations[i + 1])])

\* the structured grid of _mesh_surface, transformed
SurfaceGrid(slices, surface) ==
    StructuredGrid(Len(slices[1]), Len(slices),
                   _transform_grid(Flatten(slices), surface))

\* the solid capping logic of _mesh_surface
SurfaceSolid(grid) ==
    Clean(Triangulate(
        _add_cap(IF RootOffPlane(FirstRing(grid, grid.dims[1]))
                 THEN _add_cap(ExtractSurface(grid),
                               FirstRing(grid, grid.dims[1]), TRUE)
                 ELSE ExtractSurface(grid),
                 LastRing(grid, grid.dims[1]), FALSE)))

\* the return of _mesh_surface
SurfaceResult(grid, solid) == IF ~solid THEN grid ELSE SurfaceSolid(grid)

\* _mesh_surface that hands back an empty grid for fewer than 2 stations
_mesh_surface_lenient(surface, solid) ==
    IF Len(surface.stations) < 2 THEN StructuredGrid(0, 0, <<>>)
    ELSE SurfaceResult(SurfaceGrid(LoftSlices(surface.stations), surface), solid)

\* _mesh_surface; np.concatenate raises on fewer than 2 stations
_mesh_surface(surface, solid) ==
    IF Len(surface.stations) < 2 THEN Raised
    ELSE SurfaceResult(SurfaceGrid(LoftSlices(surface.stations), surface), solid)

(***************************************************************************)
(* mesher.py: the fuselage.  Its coordinates are in units of               *)
(* 1/((FusLongRes-1) * (FusRadRes-1)) of a tenth.                          *)
(***************************************************************************)
\* np.interp(x, xp, fp) at x = xv / (FusLongRes-1), result times FusLongRes-1.
\* x below xp[0] gives fp[0], x above xp[-1] gives fp[-1]; otherwise the
\* search walks xp from the left while x >= xp[i] and stops at j, the index
\* before the first xp above x (numpy searches linearly up to 4 points; on an
\* increasing xp every search gives this j), and the result is fp[j] when
\* x = xp[j] or j is the last index, the linear interpolation otherwise.
Interp(xv, profile) ==
    LET n == Len(profile)
        u == FusLongRes - 1
        above == {a \in 1..n : xv < profile[a][1] * u}
        first == CHOOSE b \in above : \A c \in above : b <= c
        j == IF above = {} THEN n ELSE first - 1
    IN  IF xv > profile[n][1] * u THEN profile[n][2] * u
        ELSE IF xv < profile[1][1] * u THEN profile[1][2] * u
        ELSE IF j = n \/ profile[j][1] * u = xv THEN profile[j][2] * u
        ELSE profile[j][2] * u
             + ((xv - profile[j][1] * u) * (profile[j + 1][2] - profile[j][2]))
                   \div (profile[j + 1][1] - profile[j][1])

\* cos(theta) and sin(theta), theta = 2 pi j / (FusRadRes-1), times
\* FusRadRes-1; stand-in: the unit diamond |y| + |z| = 1 for the unit circle
\* (sample 0 and sample FusRadRes-1 agree up to SinResidue)
RingCos(j) ==
    LET mm == FusRadRes - 1
        q == (4 * j) \div mm
        w == (4 * j) % mm
    IN  CASE q % 4 = 0 -> mm - w [] q % 4 = 1 -> -w
          [] q % 4 = 2 -> w - mm [] OTHER -> w

RingSin(j) ==
    LET mm == FusRadRes - 1
        q == (4 * j) \div mm
        w == (4 * j) % mm
    IN  CASE q % 4 = 0 -> w [] q % 4 = 1 -> mm - w
          [] q % 4 = 2 -> -w [] OTHER -> w - mm

\* x_dense = np.linspace(x[0], x[-1], fus_long_res), times FusLongRes-1
XDense(profile, i) ==
    profile[1][1] * (FusLongRes - 1) + i * (Last(profile)[1] - profile[1][1])

\* r_dense = np.interp(x_dense, x_sparse, r_sparse), times FusLongRes-1
RDense(profile, i) == Interp(XDense(profile, i), profile)

\* what floating point leaves of R * sin(theta) at the last sample of theta:
\* np.linspace ends at the double 2 pi, whose cosine is 1.0 and whose sine is
\* -2.45e-16, so Z is 0 only where R is 0; in units of that rounding step
SinResidue(rd, j) == IF j = FusRadRes - 1 /\ rd # 0 THEN -1 ELSE 0

\* one point of the cylindrical grid: X, Y = R cos T, Z = R sin T, translated;
\* the fourth entry is the part of Z below the resolution of the third
FusePoint(xd, rd, j, position) ==
    <<xd * (FusRadRes - 1) + position[1] * (FusLongRes - 1) * (FusRadRes - 1),
      rd * RingCos(j) + position[2] * (FusLongRes - 1) * (FusRadRes - 1),
      rd * RingSin(j) + position[3] * (FusLongRes - 1) * (FusRadRes - 1),
      SinResidue(rd, j)>>

\* the structured grid of _mesh_fuselage, translated
FuselageGrid(fuselage) ==
    StructuredGrid(FusRadRes, FusLongRes,
        [n \in 1..(FusRadRes * FusLongRes) |->
            FusePoint(XDense(fuselage.profile, (n - 1) \div FusRadRes),
                      RDense(fuselage.profile, (n - 1) \div FusRadRes),
                      (n - 1) % FusRadRes, fuselage.position)])

\* FuselageSolid that caps both ends whatever the radius
FuselageSolid_caps_both(grid, r_front, r_back) ==
    Clean(Triangulate(
        _add_cap(_add_cap(ExtractSurface(grid), FirstRing(grid, FusRadRes), TRUE),
                 LastRing(grid, FusRadRes), FALSE)))

\* the solid capping of _mesh_fuselage: a cap where r_dense exceeds 1e-6
FuselageSolid(grid, r_front, r_back) ==
    Clean(Triangulate(
        IF r_back > 0
        THEN _add_cap(IF r_front > 0
                      THEN _add_cap(ExtractSurface(grid),
                                    FirstRing(grid, FusRadRes), TRUE)
                      ELSE ExtractSurface(grid),
                      LastRing(grid, FusRadRes), FALSE)
        ELSE IF r_front > 0
             THEN _add_cap(ExtractSurface(grid), FirstRing(grid, FusRadRes), TRUE)
             ELSE ExtractSurface(grid)))

\* the return of _mesh_fuselage
FuselageResult(grid, r_front, r_back, solid) ==
    IF ~solid THEN grid ELSE FuselageSolid(grid, r_front, r_back)

\* _mesh_fuselage
_mesh_fuselage(fuselage, solid) ==
    FuselageResult(FuselageGrid(fuselage), RDense(fuselage.profile, 0),
                   RDense(fuselage.profile, FusLongRes - 1), solid)

(***************************************************************************)
(* mesher.py: the vehicle assembler.  A MultiBlock is the sequence of its  *)
(* blocks [name, mesh], in the order of the append calls.                  *)
(***************************************************************************)
\* the mirrored mesh mesh_vehicle derives from a surface's mesh
MirroredMesh(mesh, solid) ==
    IF solid THEN FlipFaces(Reflect(mesh))
    ELSE [mesh EXCEPT !.points = NegateY(@)]

\* SurfaceBlocks with the mirror appended before the primary
SurfaceBlocks_mirror_first(surface, mesh, solid) ==
    IF surface.mirrored
    THEN <<[name |-> surface.name \o "_Mirror",
            mesh |-> MirroredMesh(mesh, solid)],
           [name |-> surface.name, mesh |-> mesh]>>
    ELSE <<[name |-> surface.name, mesh |-> mesh]>>

\* the blocks mesh_vehicle appends for one surface with mesh `mesh`
SurfaceBlocks(surface, mesh, solid) ==
    IF surface.mirrored
    THEN <<[name |-> surface.name, mesh |-> mesh],
           [name |-> surface.name \o "_Mirror",
            mesh |-> MirroredMesh(mesh, solid)]>>
    ELSE <<[name |-> surface.name, mesh |-> mesh]>>

\* the block mesh_vehicle appends for the fuselage
FuselageBlocks(v, solid) ==
    IF v.fuselage # <<>>
    THEN <<[name |-> v.fuselage[1].name,
            mesh |-> _mesh_fuselage(v.fuselage[1], solid)]>>
    ELSE <<>>

\* mesh_vehicle
mesh_vehicle(v, solid) ==
    Flatten([i \in 1..Len(v.surfaces) |->
                SurfaceBlocks(v.surfaces[i],
                              _mesh_surface(v.surfaces[i], solid), solid)])
    \o FuselageBlocks(v, solid)

(***************************************************************************)
(* designer.py: the view pipeline and the export pipeline.                 *)
(***************************************************************************)
\* the components update_3d_view and export_obj walk through, in order:
\* every surface, once more as its mirror when mirrored, then the fuselage
SurfaceComponents(surface) ==
    IF surface.mirrored
    THEN <<[obj |-> surface, is_surface |-> TRUE, mirrored |-> FALSE],
           [obj |-> surface, is_surface |-> TRUE, mirrored |-> TRUE]>>
    ELSE <<[obj |-> surface, is_surface |-> TRUE, mirrored |-> FALSE]>>

Components(v) ==
    Flatten([i \in 1..Len(v.surfaces) |-> SurfaceComponents(v.surfaces[i])])
    \o (IF v.fuselage # <<>>
        THEN <<[obj |-> v.fuselage[1], is_surface |-> FALSE,
                mirrored |-> FALSE]>>
        ELSE <<>>)

\* RawMesh with solid generation forced
RawMesh_forced_solid(obj, is_surface) ==
    IF is_surface THEN _mesh_surface(obj, TRUE)
    ELSE _mesh_fuselage(obj, TRUE)

\* the raw mesh of a component, as process_component and get_grid generate it
RawMesh(obj, is_surface) ==
    IF is_surface THEN _mesh_surface(obj, obj.solid_view)
    ELSE _mesh_fuselage(obj, obj.solid_view)

\* the `if mirrored:` block of process_component and of get_grid
mirror_correction(grid, use_solid) ==
    IF use_solid THEN FlipFaces(Reflect(grid))
    ELSE flip_winding([grid EXCEPT !.points = NegateY(@)])

\* the `if getattr(obj, 'flip_normals', True):` block of process_component
user_flip(grid) ==
    IF grid.kind = "poly" THEN FlipFaces(grid) ELSE flip_winding(grid)

\* the same block of get_grid
export_flip(g, solid) ==
    IF solid THEN FlipFaces(g) ELSE flip_winding(g)

\* ProcessRaw without the user flip
ProcessRaw_no_user_flip(raw, obj, mirrored) ==
    IF raw.kind = "raise" THEN raw
    ELSE IF mirrored THEN mirror_correction(raw, obj.solid_view) ELSE raw

\* process_component after the raw mesh was generated
ProcessRaw(raw, obj, mirrored) ==
    IF raw.kind = "raise" THEN raw
    ELSE IF obj.flip_normals
         THEN user_flip(IF mirrored THEN mirror_correction(raw, obj.solid_view)
                        ELSE raw)
         ELSE IF mirrored THEN mirror_correction(raw, obj.solid_view) ELSE raw

\* process_component of update_3d_view: the mesh handed to add_mesh_to_all
process_component(obj, is_surface, mirrored) ==
    ProcessRaw(RawMesh(obj, is_surface), obj, mirrored)

\* get_grid after the raw mesh was generated
GridOfRaw(raw, obj, mirrored) ==
    IF raw.kind = "raise" THEN raw
    ELSE IF obj.flip_normals
         THEN export_flip(IF mirrored THEN mirror_correction(raw, obj.solid_view)
                          ELSE raw, obj.solid_view)
         ELSE IF mirrored THEN mirror_correction(raw, obj.solid_view) ELSE raw

\* get_grid of export_obj
get_grid(obj, is_surface, mirrored) ==
    GridOfRaw(RawMesh(obj, is_surface), obj, mirrored)

\* the entries before the first one whose generation raised
UntilRaise(entries) ==
    IF \A i \in 1..Len(entries) : entries[i].mesh.kind # "raise" THEN entries
    ELSE SubSeq(entries, 1,
                (CHOOSE i \in 1..Len(entries) :
                    /\ entries[i].mesh.kind = "raise"
                    /\ \A h \in 1..(i - 1) : entries[h].mesh.kind # "raise") - 1)

\* the plotter's entry for one component
ViewEntry(comp) ==
    [name |-> comp.obj.name, is_surface |-> comp.is_surface,
     mirrored |-> comp.mirrored,
     mesh |-> process_component(comp.obj, comp.is_surface, comp.mirrored)]

\* the block export_obj appends for one component
ExportEntry(comp) ==
    [name |-> comp.obj.name, is_surface |-> comp.is_surface,
     mirrored |-> comp.mirrored,
     mesh |-> get_grid(comp.obj, comp.is_surface, comp.mirrored)]

\* the plotter's entries for the components, in order
ViewEntries(comps) == [c \in 1..Len(comps) |-> ViewEntry(comps[c])]

\* the blocks export_obj appends for the components, in order
ExportEntries(comps) == [c \in 1..Len(comps) |-> ExportEntry(comps[c])]

\* update_3d_view: what the plotter holds when it returns; the try/except
\* around the whole pipeline ends it at the first component that raises
update_3d_view(v) == UntilRaise(ViewEntries(Components(v)))

\* export_obj, after a path was chosen: the blocks appended to `combined`
export_obj(v) == ExportEntries(Components(v))

\* the profile _mesh_fuselage read in a regeneration that left `view` in the
\* plotter (<<>>: it was not called)
ProfileRead(v, view) ==
    IF v.fuselage # <<>> /\ view # <<>> /\ ~Last(view).is_surface
    THEN v.fuselage[1].profile ELSE <<>>

(***************************************************************************)
(* designer.py: the editor.  The tree is rebuilt by refresh_tree after     *)
(* every change of the vehicle's structure, so an item of the tree is a    *)
(* component of the vehicle, named here by its place.                      *)
(***************************************************************************)
NoItem == [kind |-> "none", i |-> 0, j |-> 0]

\* what self.tree.currentItem() can be
TreeItems(v) ==
    {NoItem, [kind |-> "vehicle", i |-> 0, j |-> 0]}
    \cup {[kind |-> "surface", i |-> i, j |-> 0] : i \in 1..Len(v.surfaces)}
    \cup {[kind |-> "station", i |-> i, j |-> j] :
             i \in 1..Len(v.surfaces), j \in 1..MaxStations}
    \cup {[kind |-> "fuselage", i |-> 0, j |-> 0]}

ItemExists(v, item) ==
    CASE item.kind = "station" -> item.j <= Len(v.surfaces[item.i].stations)
      [] item.kind = "fuselage" -> v.fuselage # <<>>
      [] OTHER -> TRUE

\* _init_defaults
InitDefaults ==
    LET st1 == WingStation(0, 20, 0, 0, 0, <<0, 40, 12, 0>>)
        st2 == WingStation(50, 10, 10, 5, 0, <<0, 40, 12, 0>>)
        wing == _init_component_viz(
                    LiftingSurface("Main_Wing", <<st1, st2>>, <<0, 0, 0>>, TRUE))
    IN  [Vehicle EXCEPT !.surfaces = Append(@, wing)]

\* the vehicle after add_new_wing
add_new_wing(v) ==
    LET st1 == WingStation(0, 10, 0, 0, 0, <<0, 40, 12, 0>>)
        st2 == WingStation(10, 10, 0, 0, 0, <<0, 40, 12, 0>>)
        count == Len(v.surfaces) + 1
        wing == _init_component_viz(
                    LiftingSurface("Wing_" \o ToString(count), <<st1, st2>>,
                                   <<0, 0, 0>>, TRUE))
    IN  [v EXCEPT !.surfaces = Append(@, wing)]

\* the vehicle after add_fuselage
add_fuselage(v) ==
    LET profile == <<<<0, 0>>, <<5, 4>>, <<40, 4>>, <<50, 0>>>>
        fuse == _init_component_viz(Fuselage("Fuselage", profile, <<0, 0, 0>>))
    IN  IF v.fuselage # <<>> THEN v ELSE [v EXCEPT !.fuselage = <<fuse>>]

\* the station add_station_to_selected appends to a surface
NewStation(last) ==
    [WingStation(last.y + 10, last.chord, last.x, last.z, last.twist, <<>>)
        EXCEPT !.airfoil_params = last.airfoil_params,
               !.m = last.m, !.p = last.p, !.t = last.t]

\* the vehicle after add_station_to_selected with `item` the current item
add_station_to_selected(v, item) ==
    IF item.kind = "surface"
    THEN [v EXCEPT !.surfaces[item.i].stations =
                       Append(@, NewStation(Last(@)))]
    ELSE v

\* remove_component without the `len(surf.stations) > 2` test
remove_component_unguarded(v, item) ==
    CASE item.kind = "surface" ->
            [v EXCEPT !.surfaces = RemoveAt(@, item.i)]
      [] item.kind = "fuselage" ->
            [v EXCEPT !.fuselage = <<>>]
      [] item.kind = "station" ->
            [v EXCEPT !.surfaces[item.i].stations = RemoveAt(@, item.j)]
      [] OTHER -> v

\* the vehicle after remove_component with `item` the current item
remove_component(v, item) ==
    CASE item.kind = "surface" ->
            [v EXCEPT !.surfaces = RemoveAt(@, item.i)]
      [] item.kind = "fuselage" ->
            [v EXCEPT !.fuselage = <<>>]
      [] item.kind = "station" ->
            IF Len(v.surfaces[item.i].stations) > 2
            THEN [v EXCEPT !.surfaces[item.i].stations = RemoveAt(@, item.j)]
            ELSE v
      [] OTHER -> v

(***************************************************************************)
(* designer.py: the fuselage table.                                        *)
(***************************************************************************)
IsSortedByX(profile) ==
    \A a \in 1..(Len(profile) - 1) : profile[a][1] <= profile[a + 1][1]

\* update_fuselage_table: profile[profile[:, 0].argsort()].  argsort's default
\* kind is not stable, so points of equal x may come out in either order:
\* the set of the profiles it may leave
update_fuselage_table(profile) ==
    LET n == Len(profile)
        perms == {f \in [1..n -> 1..n] : \A a, b \in 1..n : a # b => f[a] # f[b]}
    IN  {q \in {[a \in 1..n |-> profile[f[a]]] : f \in perms} : IsSortedByX(q)}

\* the texts a table cell is given in the model
CellTexts == {"0.5", "abc"}

\* float(text): the value in tenths, or ValueError
ParseFloat(text) ==
    CASE text = "0.5" -> [ok |-> TRUE, val |-> 5]
      [] OTHER -> [ok |-> FALSE, val |-> 0]

\* on_fuse_table_change: fuselage.profile[row, col] = val
on_fuse_table_change(profile, row, col, val) ==
    [profile EXCEPT ![row][col] = val]

\* add_fuse_point, before the table is updated
add_fuse_point(profile) ==
    Append(profile, <<Last(profile)[1] + 10, 5>>)

\* remove_fuse_point without its test of the profile's length
remove_fuse_point_unguarded(profile, row) ==
    RemoveAt(profile, IF row = 0 THEN Len(profile) ELSE row)

\* remove_fuse_point, before the table is updated; row 0 is currentRow() = -1
remove_fuse_point(profile, row) ==
    LET r == IF row = 0 THEN Len(profile) ELSE row
    IN  IF Len(profile) > 2 THEN RemoveAt(profile, r) ELSE profile

(***************************************************************************)
(* States and actions of the editor.                                       *)
(***************************************************************************)
NoExport == [status |-> "none", blocks |-> <<>>]

\* no direct call of a mesher method yet
NoCall == [op |-> "none"]

\* no mesh_vehicle call yet
NoBlocks == [state |-> "none", blocks |-> <<>>]

\* the state with vehicle v, nothing regenerated, merged or exported yet
Fresh(v) ==
    /\ vehicle = v
    /\ plotter = <<>>
    /\ profile_read = <<>>
    /\ multiblock = NoBlocks
    /\ exported = NoExport
    /\ pc = "idle"
    /\ blk = 0
    /\ solids = <<>>
    /\ unified = <<>>
    /\ progress = <<>>
    /\ outcome = "none"
    /\ call = NoCall

\* PlaneDesigner.__init__: the default vehicle, then update_3d_view
Init ==
    /\ vehicle = InitDefaults
    /\ plotter = update_3d_view(InitDefaults)
    /\ profile_read = <<>>
    /\ multiblock = NoBlocks
    /\ exported = NoExport
    /\ pc = "idle"
    /\ blk = 0
    /\ solids = <<>>
    /\ unified = <<>>
    /\ progress = <<>>
    /\ outcome = "none"
    /\ call = NoCall

\* a handler that changes the vehicle to v and ends with update_3d_view
Edit(v) ==
    /\ vehicle' = v
    /\ plotter' = update_3d_view(v)
    /\ profile_read' = ProfileRead(v, plotter')
    /\ UNCHANGED <<multiblock, exported, pc, blk, solids, unified, progress,
                   outcome,
                   call>>

AddNewWing ==
    /\ pc = "idle"
    /\ Len(vehicle.surfaces) < MaxSurfaces
    /\ Edit(add_new_wing(vehicle))

AddFuselage ==
    /\ pc = "idle"
    /\ IF vehicle.fuselage # <<>> THEN UNCHANGED vars
       ELSE Edit(add_fuselage(vehicle))

AddStationToSelected ==
    /\ pc = "idle"
    /\ \E item \in TreeItems(vehicle) :
          /\ ItemExists(vehicle, item)
          /\ IF item.kind = "surface"
             THEN /\ Len(vehicle.surfaces[item.i].stations) < MaxStations
                  /\ Last(vehicle.surfaces[item.i].stations).y + 10 <= MaxY
                  /\ Edit(add_station_to_selected(vehicle, item))
             ELSE UNCHANGED vars

\* set_attr_refresh(obj, 'flip_normals', v) from the fuselage's check box
SetAttrRefresh ==
    /\ pc = "idle"
    /\ vehicle.fuselage # <<>>
    /\ \E value \in BOOLEAN :
          Edit([vehicle EXCEPT !.fuselage[1].flip_normals = value])

\* remove_component with the current item one of `items`
RemoveComponentOf(items) ==
    /\ pc = "idle"
    /\ \E item \in items :
          /\ ItemExists(vehicle, item)
          /\ IF item = NoItem THEN UNCHANGED vars
             ELSE Edit(remove_component(vehicle, item))

RemoveComponent == RemoveComponentOf(TreeItems(vehicle))

\* remove_component with the fuselage the current item
RemoveFuselage == RemoveComponentOf({[kind |-> "fuselage", i |-> 0, j |-> 0]})

OnFuseTableChange ==
    /\ pc = "idle"
    /\ vehicle.fuselage # <<>>
    /\ \E row \in 1..Len(vehicle.fuselage[1].profile), col \in 1..2,
          text \in CellTexts :
          IF ParseFloat(text).ok
          THEN Edit([vehicle EXCEPT !.fuselage[1].profile =
                        on_fuse_table_change(@, row, col, ParseFloat(text).val)])
          ELSE UNCHANGED vars

AddFusePoint ==
    /\ pc = "idle"
    /\ vehicle.fuselage # <<>>
    /\ Len(vehicle.fuselage[1].profile) < MaxProfile
    /\ Last(vehicle.fuselage[1].profile)[1] + 10 <= MaxX
    /\ \E q \in update_fuselage_table(add_fuse_point(vehicle.fuselage[1].profile)) :
          Edit([vehicle EXCEPT !.fuselage[1].profile = q])

RemoveFusePoint ==
    /\ pc = "idle"
    /\ vehicle.fuselage # <<>>
    /\ \E row \in 0..Len(vehicle.fuselage[1].profile) :
          IF Len(vehicle.fuselage[1].profile) > 2
          THEN \E q \in update_fuselage_table(
                            remove_fuse_point(vehicle.fuselage[1].profile, row)) :
                  Edit([vehicle EXCEPT !.fuselage[1].profile = q])
          ELSE UNCHANGED vars

\* the editor's handlers that change the structure of the vehicle
Next ==
    \/ AddNewWing
    \/ AddFuselage
    \/ AddStationToSelected
    \/ RemoveComponent
    \/ SetAttrRefresh

Spec == Init /\ [][Next]_vars

\* the editor's handlers that change the fuselage and its profile
NextFuse ==
    \/ AddFuselage
    \/ RemoveFuselage
    \/ OnFuseTableChange
    \/ AddFusePoint
    \/ RemoveFusePoint

SpecFuse == Init /\ [][NextFuse]_vars

(***************************************************************************)
(* The generation pipelines on their own: the vehicles they are given, and *)
(* one action per pipeline.                                                *)
(***************************************************************************)
\* the surfaces of the default vehicle after n - 1 add_new_wing
RECURSIVE BaseVehicle(_)
BaseVehicle(n) ==
    IF n = 0 THEN Vehicle
    ELSE IF n = 1 THEN InitDefaults
    ELSE add_new_wing(BaseVehicle(n - 1))

\* set_attr_refresh on 'mirrored', 'flip_normals', 'solid_view' of a surface
SurfaceSettings(surface) ==
    {[surface EXCEPT !.mirrored = a, !.flip_normals = b, !.solid_view = c] :
        a \in BOOLEAN, b \in BOOLEAN, c \in BOOLEAN}

\* set_attr_refresh on 'flip_normals', 'solid_view' of the fuselage
FuselageSettings(fuselage) ==
    {[fuselage EXCEPT !.flip_normals = b, !.solid_view = c] :
        b \in BOOLEAN, c \in BOOLEAN}

\* set_attr_refresh on 'mirrored' of a surface
MirroredSettings(surface) ==
    {[surface EXCEPT !.mirrored = a] : a \in BOOLEAN}

\* the vehicles on the surfaces of base: every setting of the first surface,
\* the mirrored flag of the others, with and without the default fuselage in
\* every setting
VehiclesOf(base) ==
    {[surfaces |-> f, fuselage |-> g] :
        f \in {h \in [1..Len(base.surfaces) ->
                        UNION {SurfaceSettings(base.surfaces[i]) :
                                   i \in 1..Len(base.surfaces)}] :
                  \A i \in 1..Len(base.surfaces) :
                      h[i] \in IF i = 1 THEN SurfaceSettings(base.surfaces[i])
                               ELSE MirroredSettings(base.surfaces[i])},
        g \in {<<>>} \cup {<<q>> : q \in FuselageSettings(add_fuselage(base).fuselage[1])}}

MeshVehicles == UNION {VehiclesOf(BaseVehicle(n)) : n \in 0..MaxSurfaces}

InitMesh == \E v \in MeshVehicles : Fresh(v)

\* update_3d_view on the vehicle as it is
Regenerate ==
    /\ pc = "idle"
    /\ plotter' = update_3d_view(vehicle)
    /\ profile_read' = ProfileRead(vehicle, plotter')
    /\ UNCHANGED <<vehicle, multiblock, exported, pc, blk, solids, unified,
                   progress, outcome,
                   call>>

\* what a mesh_vehicle call leaves its caller with: the MultiBlock, or the
\* exception of the first component whose generation raised (no try/except
\* in mesh_vehicle, so nothing is returned)
MultiBlockOf(blocks, state) ==
    IF \E b \in 1..Len(blocks) : blocks[b].mesh.kind = "raise"
    THEN [state |-> "raise", blocks |-> <<>>]
    ELSE [state |-> state, blocks |-> blocks]

\* CallMeshVehicle that keeps the mirrored instances in the vehicle, as
\* surfaces of their own
CallMeshVehicle_stores_mirror ==
    /\ pc = "idle"
    /\ multiblock' = MultiBlockOf(mesh_vehicle(vehicle, FALSE), "open")
    /\ vehicle' = [vehicle EXCEPT !.surfaces =
                      @ \o SelectSeq(@, LAMBDA surface : surface.mirrored)]
    /\ UNCHANGED <<plotter, profile_read, exported, pc, blk, solids,
                   unified, progress, outcome, call>>

\* mesher.mesh_vehicle(vehicle, solid=False), the assembler's default
CallMeshVehicle ==
    /\ pc = "idle"
    /\ multiblock' = MultiBlockOf(mesh_vehicle(vehicle, FALSE), "open")
    /\ UNCHANGED <<vehicle, plotter, profile_read, exported, pc, blk, solids,
                   unified, progress, outcome,
                   call>>

\* export_obj with a path chosen
ExportObj ==
    /\ pc = "idle"
    /\ exported' = [status |-> "saved", blocks |-> export_obj(vehicle)]
    /\ UNCHANGED <<vehicle, plotter, profile_read, multiblock, pc, blk, solids,
                   unified, progress, outcome,
                   call>>

(***************************************************************************)
(* designer.py: run_heavy_union, one step per progress update.  The        *)
(* progress dialog is window-modal: no other handler runs before it ends.  *)
(***************************************************************************)
NoneMesh == [kind |-> "none", dims |-> <<0, 0>>, points |-> <<>>, faces |-> <<>>,
             caps |-> 0, n_cells |-> 0]

\* make_solid: None for a missing or empty mesh, else triangulate, subdivide(2)
\* (every triangle into 16), clean, compute_normals
make_solid(mesh) ==
    IF mesh.kind = "none" \/ Len(mesh.points) = 0 THEN NoneMesh
    ELSE [mesh EXCEPT !.n_cells = 16 * @]

\* 10 + int(i / count * 30)
RefinePercent(i, count) == 10 + (i * 30) \div count

\* MergePercent without the 40 the merge phase starts from
MergePercent_from_zero(i, n) == (i * 50) \div n

\* 40 + int(i / len(solids) * 50)
MergePercent(i, n) == 40 + (i * 50) \div n

\* solids.sort(key=lambda m: m.n_cells, reverse=True): stable, descending
RECURSIVE SortByCells(_)
SortByCells(s) ==
    IF s = <<>> THEN <<>>
    ELSE LET h == Head(s)
             rest == SortByCells(Tail(s))
             before == Cardinality({a \in 1..Len(rest) :
                                       rest[a].mesh.n_cells > h.mesh.n_cells})
         IN  SubSeq(rest, 1, before) \o <<h>> \o SubSeq(rest, before + 1, Len(rest))

\* merge_step that leaves the accumulated mesh as it was when the union raised
merge_step_drop_on_failure(acc, solid, union_ok) ==
    IF union_ok
    THEN Append(acc, [name |-> solid.name, n_cells |-> solid.mesh.n_cells,
                      how |-> "boolean_union"])
    ELSE acc

\* one pass of the merge loop: boolean_union, or `unified + solids[i]` when
\* the union raised
merge_step(acc, solid, union_ok) ==
    Append(acc, [name |-> solid.name, n_cells |-> solid.mesh.n_cells,
                 how |-> IF union_ok THEN "boolean_union" ELSE "concatenation"])

\* UnionStart without `raise ValueError("No data")`: the empty MultiBlock is
\* handed back as the result
UnionStart_returns_empty ==
    /\ pc = "idle"
    /\ progress' = <<10>>
    /\ multiblock' = MultiBlockOf(mesh_vehicle(vehicle, TRUE), "solid")
    /\ solids' = <<>>
    /\ unified' = <<>>
    /\ blk' = 0
    /\ IF multiblock'.blocks = <<>>
       THEN pc' = "idle" /\ outcome' = "returned"
       ELSE pc' = "refine" /\ outcome' = "running"
    /\ UNCHANGED <<vehicle, plotter, profile_read, exported, call>>

\* lines 689-693: the first progress update, mesh_vehicle(solid=True)
UnionStart ==
    /\ pc = "idle"
    /\ progress' = <<10>>
    /\ multiblock' = MultiBlockOf(mesh_vehicle(vehicle, TRUE), "solid")
    /\ solids' = <<>>
    /\ unified' = <<>>
    /\ blk' = 0
    /\ IF multiblock'.state = "raise"
       THEN pc' = "idle" /\ outcome' = "ValueError: need at least one array"
       ELSE IF multiblock'.blocks = <<>>
       THEN pc' = "idle" /\ outcome' = "ValueError: No data"
       ELSE pc' = "refine" /\ outcome' = "running"
    /\ UNCHANGED <<vehicle, plotter, profile_read, exported,
                   call>>

\* lines 697-700: one block refined
Refine ==
    /\ pc = "refine"
    /\ blk < Len(multiblock.blocks)
    /\ IF multiblock.blocks[blk + 1].mesh.kind # "none"
       THEN /\ progress' = Append(progress,
                                  RefinePercent(blk, Len(multiblock.blocks)))
            /\ solids' = Append(solids,
                   [name |-> multiblock.blocks[blk + 1].name,
                    mesh |-> make_solid(multiblock.blocks[blk + 1].mesh)])
       ELSE UNCHANGED <<progress, solids>>
    /\ blk' = blk + 1
    /\ UNCHANGED <<vehicle, plotter, profile_read, multiblock, exported, pc,
                   unified, outcome,
                   call>>

\* lines 702-704: the solids sorted, the largest taken first
SortSolids ==
    /\ pc = "refine"
    /\ blk = Len(multiblock.blocks)
    /\ IF solids = <<>>
       THEN /\ pc' = "idle" /\ outcome' = "ValueError: No solids"
            /\ UNCHANGED <<solids, unified, blk>>
       ELSE IF \E a \in 1..Len(solids) : solids[a].mesh.kind = "none"
       THEN /\ pc' = "idle" /\ outcome' = "AttributeError"
            /\ UNCHANGED <<solids, unified, blk>>
       ELSE /\ solids' = SortByCells(solids)
            /\ unified' = <<[name |-> solids'[1].name,
                             n_cells |-> solids'[1].mesh.n_cells,
                             how |-> "first"]>>
            /\ blk' = 1
            /\ pc' = "merge"
            /\ UNCHANGED outcome
    /\ UNCHANGED <<vehicle, plotter, profile_read, multiblock, exported,
                   progress,
                   call>>

\* lines 706-709: one pairwise merge; the kernel may fail on any of them
Merge ==
    /\ pc = "merge"
    /\ blk < Len(solids)
    /\ progress' = Append(progress, MergePercent(blk, Len(solids)))
    /\ \E union_ok \in BOOLEAN :
          unified' = merge_step(unified, solids[blk + 1], union_ok)
    /\ blk' = blk + 1
    /\ UNCHANGED <<vehicle, plotter, profile_read, multiblock, exported, pc,
                   solids, outcome,
                   call>>

\* line 711: return unified
Return ==
    /\ pc = "merge"
    /\ blk = Len(solids)
    /\ pc' = "idle"
    /\ outcome' = "returned"
    /\ UNCHANGED <<vehicle, plotter, profile_read, multiblock, exported, blk,
                   solids, unified, progress,
                   call>>

\* the pipelines applied to a vehicle: view, assembler, export, and the
\* generation step of the merge
NextMesh ==
    \/ Regenerate
    \/ CallMeshVehicle
    \/ ExportObj
    \/ UnionStart

SpecMesh == InitMesh /\ [][NextMesh]_vars

\* the vehicles the merge is run on: every choice of the mirrored flags
UnionVehicles ==
    {v \in MeshVehicles :
        /\ \A i \in 1..Len(v.surfaces) :
              v.surfaces[i].flip_normals /\ ~v.surfaces[i].solid_view
        /\ v.fuselage # <<>> =>
              v.fuselage[1].flip_normals /\ ~v.fuselage[1].solid_view}

InitUnion == \E v \in UnionVehicles : Fresh(v)

NextUnion ==
    \/ UnionStart
    \/ Refine
    \/ SortSolids
    \/ Merge
    \/ Return

SpecUnion == InitUnion /\ [][NextUnion]_vars

(***************************************************************************)
(* The assembler and the view on vehicles as components.py lets them be    *)
(* built: LiftingSurface takes any list of stations.                       *)
(***************************************************************************)
\* a surface with its first n stations, mirrored or not
StationPrefixes(surface) ==
    {[surface EXCEPT !.stations = SubSeq(@, 1, n), !.mirrored = a] :
        n \in 0..Len(surface.stations), a \in BOOLEAN}

\* the vehicles on the surfaces of base, each with any prefix of its
\* stations, with and without the default fuselage
PrefixVehiclesOf(base) ==
    {[surfaces |-> f, fuselage |-> g] :
        f \in {h \in [1..Len(base.surfaces) ->
                        UNION {StationPrefixes(base.surfaces[i]) :
                                   i \in 1..Len(base.surfaces)}] :
                  \A i \in 1..Len(base.surfaces) :
                      h[i] \in StationPrefixes(base.surfaces[i])},
        g \in {<<>>, add_fuselage(base).fuselage}}

PrefixVehicles == UNION {PrefixVehiclesOf(BaseVehicle(n)) : n \in 1..MaxSurfaces}

InitPrefix == \E v \in PrefixVehicles : Fresh(v)

NextPrefix ==
    \/ Regenerate
    \/ CallMeshVehicle

SpecPrefix == InitPrefix /\ [][NextPrefix]_vars

(***************************************************************************)
(* The mesher's methods called on their own, on surfaces and stations as   *)
(* components.py builds them.                                              *)
(***************************************************************************)
\* airfoil_params [m, p, t, r], in hundredths
AirfoilParams ==
    {<<m, p, t, r>> : m \in {0, 2}, p \in {0, 40}, t \in {6, 12}, r \in {0, 2}}

\* the j-th station of a tapered, swept surface whose root is at y0
ProbeStation(j, y0, prm) ==
    WingStation(y0 + 10 * (j - 1), 20 - 5 * (j - 1), 5 * (j - 1), 2 * (j - 1),
                0, prm)

\* surfaces of 0..MaxStations stations, root on the plane y = 0 or off it,
\* moved along y or not
ProbeSurfaces ==
    {LiftingSurface("Probe", [j \in 1..n |-> ProbeStation(j, y0, prm)],
                    <<0, py, 0>>, FALSE) :
        n \in 0..MaxStations, y0 \in {0, 10}, py \in {0, -10},
        prm \in {<<0, 40, 12, 0>>, <<2, 40, 12, 2>>}}

\* mesher._mesh_surface(surface, solid)
CallMeshSurface ==
    /\ pc = "idle"
    /\ \E surface \in ProbeSurfaces, solid \in BOOLEAN :
          call' = [op |-> "_mesh_surface", surface |-> surface, solid |-> solid,
                   result |-> _mesh_surface(surface, solid)]
    /\ UNCHANGED <<vehicle, plotter, profile_read, multiblock, exported, pc,
                   blk, solids, unified, progress, outcome>>

\* mesher._get_airfoil_coords(station)
CallGetAirfoilCoords ==
    /\ pc = "idle"
    /\ \E prm \in AirfoilParams :
          call' = [op |-> "_get_airfoil_coords",
                   station |-> ProbeStation(1, 0, prm),
                   result |-> _get_airfoil_coords(ProbeStation(1, 0, prm))]
    /\ UNCHANGED <<vehicle, plotter, profile_read, multiblock, exported, pc,
                   blk, solids, unified, progress, outcome>>

\* StructuredMesher.__init__: the four resolutions stored as they are given
StructuredMesher(chord_res, span_res, fuselage_radial_res, fuselage_long_res) ==
    [chord_res |-> chord_res, span_res |-> span_res,
     fus_rad_res |-> fuselage_radial_res, fus_long_res |-> fuselage_long_res]

\* StructuredMesher(): the defaults of __init__
DefaultMesher == StructuredMesher(30, 15, 36, 50)

\* the mesher the rest of this model generates with
ModelMesher == StructuredMesher(ChordRes, SpanRes, FusRadRes, FusLongRes)

RaisedShape == [kind |-> "raise", dims |-> <<0, 0>>]

GridShape(n1, n2) == [kind |-> "grid", dims |-> <<n1, n2>>]

\* the length of the loop of _get_airfoil_coords, -1 when it raises:
\* np.linspace raises for a negative count, `yt[-1] = 0.0` for the count 0
LoopLen(chord_res) == IF chord_res < 1 THEN -1 ELSE 2 * chord_res - 1

\* the slices _mesh_surface concatenates for k >= 2 stations, -1 when
\* np.linspace raises in _loft_segment: span_res of the first segment, each
\* later segment without its first slice
SpanLen(span_res, k) ==
    IF span_res < 0 THEN -1
    ELSE IF span_res = 0 THEN 0
    ELSE span_res + (k - 2) * (span_res - 1)

\* what a grid of n1 x n2 points can be: with no point at all, pyvista may
\* take the dimensions or raise
ShapesOf(n1, n2) ==
    IF n1 < 0 \/ n2 < 0 THEN {RaisedShape}
    ELSE IF n1 = 0 \/ n2 = 0 THEN {RaisedShape, GridShape(n1, n2)}
    ELSE {GridShape(n1, n2)}

\* the shapes _mesh_surface(surface, solid=False) can give for k >= 2 stations
SurfaceShapes(mesher, k) ==
    ShapesOf(LoopLen(mesher.chord_res), SpanLen(mesher.span_res, k))

\* np.linspace(a, b, n): n samples, -1 when it raises
LinspaceLen(n) == IF n < 0 THEN -1 ELSE n

\* the shapes _mesh_fuselage(fuselage, solid=False) can give
FuselageShapes(mesher) ==
    ShapesOf(LinspaceLen(mesher.fus_rad_res), LinspaceLen(mesher.fus_long_res))

\* StructuredMesher(chord_res=c, span_res=s)._mesh_surface(surface) on a
\* surface of k stations
CallSurfaceWithResolution ==
    /\ pc = "idle"
    /\ \E c \in -1..MaxRes, sp \in -1..MaxRes, k \in 2..MaxStations :
          \E shape \in SurfaceShapes(StructuredMesher(c, sp, 36, 50), k) :
              call' = [op |-> "surface_shape",
                       mesher |-> StructuredMesher(c, sp, 36, 50),
                       k |-> k, result |-> shape]
    /\ UNCHANGED <<vehicle, plotter, profile_read, multiblock, exported, pc,
                   blk, solids, unified, progress, outcome>>

\* StructuredMesher(fuselage_radial_res=r, fuselage_long_res=l)
\* ._mesh_fuselage(fuselage)
CallFuselageWithResolution ==
    /\ pc = "idle"
    /\ \E r \in -1..MaxRes, l \in -1..MaxRes :
          \E shape \in FuselageShapes(StructuredMesher(30, 15, r, l)) :
              call' = [op |-> "fuselage_shape",
                       mesher |-> StructuredMesher(30, 15, r, l),
                       k |-> 0, result |-> shape]
    /\ UNCHANGED <<vehicle, plotter, profile_read, multiblock, exported, pc,
                   blk, solids, unified, progress, outcome>>

\* fuselage profiles (x, radius) in tenths, sorted by x: the profile of
\* add_fuselage, profiles open at the front, the back or both, and one whose
\* first two points share their x
ProbeProfiles ==
    {<<<<0, rf>>, <<5, 4>>, <<40, 4>>, <<50, rb>>>> : rf \in {0, 4}, rb \in {0, 2}}
    \cup {<<<<0, rf>>, <<50, rb>>>> : rf \in {0, 4}, rb \in {0, 2}}
    \cup {<<<<5, 0>>, <<5, 4>>, <<40, 4>>, <<50, 0>>>>}

\* mesher._mesh_fuselage(fuselage, solid)
CallMeshFuselage ==
    /\ pc = "idle"
    /\ \E profile \in ProbeProfiles, solid \in BOOLEAN, px \in {0, 10} :
          call' = [op |-> "_mesh_fuselage",
                   fuselage |-> Fuselage("Fuselage", profile, <<px, 0, 0>>),
                   solid |-> solid,
                   result |-> _mesh_fuselage(
                       Fuselage("Fuselage", profile, <<px, 0, 0>>), solid)]
    /\ UNCHANGED <<vehicle, plotter, profile_read, multiblock, exported, pc,
                   blk, solids, unified, progress, outcome>>

InitProbe == Fresh(Vehicle)

NextProbe ==
    \/ CallMeshSurface
    \/ CallGetAirfoilCoords
    \/ CallSurfaceWithResolution
    \/ CallFuselageWithResolution
    \/ CallMeshFuselage

SpecProbe == InitProbe /\ [][NextProbe]_vars

(***************************************************************************)
(* designer.py: the loop of run_heavy_union (lines 697-711) as a function  *)
(* of the MultiBlock it is given: the solids of a vehicle, with or without *)
(* a missing block or a mesh without points among them.                    *)
(***************************************************************************)
\* a PolyData with no point
EmptyMesh == [kind |-> "poly", dims |-> <<0, 0>>, points |-> <<>>, faces |-> <<>>,
              caps |-> 0, n_cells |-> 0]

\* blocks with `extra` put before the block at position k + 1
InsertBlock(blocks, k, extra) ==
    SubSeq(blocks, 1, k) \o <<extra>> \o SubSeq(blocks, k + 1, Len(blocks))

\* the MultiBlocks the loop is run on
BlockLists ==
    LET base == {mesh_vehicle(InitDefaults, TRUE),
                 mesh_vehicle(add_fuselage(InitDefaults), TRUE)}
        extras == {[name |-> "Empty", mesh |-> EmptyMesh],
                   [name |-> "Missing", mesh |-> NoneMesh]}
    IN  base \cup UNION {{InsertBlock(b, k, e) : k \in 0..Len(b), e \in extras} :
                           b \in base}

\* run_heavy_union after line 695, with the MultiBlock in hand
InitBlocks ==
    /\ vehicle = Vehicle
    /\ plotter = <<>>
    /\ profile_read = <<>>
    /\ \E blocks \in BlockLists : multiblock = [state |-> "solid", blocks |-> blocks]
    /\ exported = NoExport
    /\ pc = "refine"
    /\ blk = 0
    /\ solids = <<>>
    /\ unified = <<>>
    /\ progress = <<10>>
    /\ outcome = "running"
    /\ call = NoCall

NextBlocks ==
    \/ Refine
    \/ SortSolids
    \/ Merge
    \/ Return

SpecBlocks == InitBlocks /\ [][NextBlocks]_vars

(***************************************************************************)
(* designer.py: the station editor, on surfaces whose stations are built   *)
(* by WingStation with airfoil_params of its own choice.                   *)
(***************************************************************************)
\* airfoil_params lists handed to WingStation, in hundredths: the editor's
\* own, one with camber and reflex, one without the optional reflex entry
StationParams == {<<0, 40, 12, 0>>, <<2, 40, 12, 2>>, <<0, 40, 12>>}

\* a vehicle of one surface whose 2 stations are built with prm
StationVehicles ==
    {[Vehicle EXCEPT !.surfaces =
         <<_init_component_viz(
               LiftingSurface("Main_Wing",
                   <<WingStation(0, 20, 0, 0, 0, prm),
                     WingStation(10, 10, 0, 0, 0, prm)>>,
                   <<0, 0, 0>>, FALSE))>>] : prm \in StationParams}

\* set_arr(obj.airfoil_params, idx, val, obj) on a station: the entry is
\* written, then m, p, t are taken again from airfoil_params[:3]
set_arr(st, idx, val) ==
    LET prm == [st.airfoil_params EXCEPT ![idx] = val]
    IN  [st EXCEPT !.airfoil_params = prm,
                   !.m = prm[1], !.p = prm[2], !.t = prm[3]]

\* the values the spin boxes Camber, Cam Pos and Thick are set to
ArrValues == <<{0, 2}, {0, 40}, {12}>>

\* on_change of one of the three airfoil spin boxes of a station
SetArr ==
    /\ pc = "idle"
    /\ \E i \in 1..Len(vehicle.surfaces) :
          \E j \in 1..Len(vehicle.surfaces[i].stations), idx \in 1..3 :
              \E val \in ArrValues[idx] :
                  Edit([vehicle EXCEPT !.surfaces[i].stations[j] =
                                          set_arr(@, idx, val)])

InitStation == \E v \in StationVehicles : Fresh(v)

NextStation ==
    \/ AddStationToSelected
    \/ SetArr

SpecStation == InitStation /\ [][NextStation]_vars

(***************************************************************************)
(* Claims.                                                                 *)
(***************************************************************************)
StationItem(i, j) == [kind |-> "station", i |-> i, j |-> j]

\* C1: every surface of the vehicle has at least 2 stations, and
\* remove_component on any station of a surface with exactly 2 stations
\* leaves that surface's station list as it was.
C1_StationsKept ==
    \A i \in 1..Len(vehicle.surfaces) :
        /\ Len(vehicle.surfaces[i].stations) >= 2
        /\ Len(vehicle.surfaces[i].stations) = 2 =>
              \A j \in 1..2 :
                  remove_component(vehicle, StationItem(i, j)).surfaces[i].stations
                      = vehicle.surfaces[i].stations

\* C1 witness: a surface that lost a station (its first station is no longer
\* the one it was created with) and stands at exactly 2 stations
C1_Witness ==
    \E i \in 1..Len(vehicle.surfaces) :
        /\ Len(vehicle.surfaces[i].stations) = 2
        /\ vehicle.surfaces[i].stations[1].y # 0

\* C2: the profile every regeneration's _mesh_fuselage reads is sorted by
\* ascending x.
C2_ProfileSortedWhenRead ==
    profile_read # <<>> => IsSortedByX(profile_read)

SurfaceCount == Len(vehicle.surfaces)

\* the number of mirrored surfaces before surface i
MirroredBefore(i) ==
    Cardinality({h \in 1..(i - 1) : vehicle.surfaces[h].mirrored})

\* the place of surface i's primary part in the assembler's result
BlockPos(i) == i + MirroredBefore(i)

\* C3: mesh_vehicle returns, for each surface in vehicle order, its primary
\* part named surface.name, immediately followed by a part named
\* surface.name + "_Mirror" exactly when the surface is mirrored; then the
\* fuselage part, if there is a fuselage, last; the number of parts is
\* |surfaces| + |mirrored surfaces| + (1 if a fuselage exists).
C3_PartsInOrder ==
    multiblock.state # "none" =>
        /\ Len(multiblock.blocks)
              = SurfaceCount + MirroredBefore(SurfaceCount + 1)
                + (IF vehicle.fuselage # <<>> THEN 1 ELSE 0)
        /\ \A i \in 1..SurfaceCount :
              /\ multiblock.blocks[BlockPos(i)].name = vehicle.surfaces[i].name
              /\ vehicle.surfaces[i].mirrored =>
                    /\ multiblock.blocks[BlockPos(i) + 1].name
                          = vehicle.surfaces[i].name \o "_Mirror"
                    /\ multiblock.blocks[BlockPos(i) + 1].mesh.points
                          = NegateY(multiblock.blocks[BlockPos(i)].mesh.points)
        /\ vehicle.fuselage # <<>> =>
              multiblock.blocks[Len(multiblock.blocks)].name
                  = vehicle.fuselage[1].name

\* C3 witness: the assembler ran on a vehicle with a mirrored surface, then
\* an unmirrored one, then a fuselage.
C3_Witness ==
    /\ multiblock.state # "none"
    /\ SurfaceCount >= 2
    /\ vehicle.surfaces[1].mirrored
    /\ ~vehicle.surfaces[2].mirrored
    /\ vehicle.fuselage # <<>>

\* C4 as stated: the merge pipeline and the export pipeline generate every
\* part as a solid, whatever the component's solid_view.
C4_EveryPartSolid ==
    /\ multiblock.state = "solid" =>
          \A b \in 1..Len(multiblock.blocks) :
              multiblock.blocks[b].mesh.kind = "poly"
    /\ exported.status = "saved" =>
          \A c \in 1..Len(exported.blocks) :
              exported.blocks[c].mesh.kind = "poly"

\* C4 amended: the merge pipeline generates every part as a solid whatever
\* solid_view is; the export pipeline generates a part as a solid exactly
\* when its component's solid_view is set.
C4_SolidWhereForced ==
    /\ multiblock.state = "solid" =>
          \A b \in 1..Len(multiblock.blocks) :
              multiblock.blocks[b].mesh.kind = "poly"
    /\ exported.status = "saved" =>
          /\ Len(exported.blocks) = Len(Components(vehicle))
          /\ \A c \in 1..Len(exported.blocks) :
                (exported.blocks[c].mesh.kind = "poly")
                    <=> Components(vehicle)[c].obj.solid_view

\* C4 witness: the merge generated its parts from a vehicle whose first
\* surface is open in the view, and the export wrote an open part and a
\* solid part.
C4_Witness ==
    /\ multiblock.state = "solid"
    /\ SurfaceCount >= 1
    /\ ~vehicle.surfaces[1].solid_view
    /\ exported.status = "saved"
    /\ \E c \in 1..Len(exported.blocks) : exported.blocks[c].mesh.kind = "grid"
    /\ \E c \in 1..Len(exported.blocks) : exported.blocks[c].mesh.kind = "poly"

\* mirror is primary with y negated and the chordwise index of every
\* spanwise slice reversed
ReversedAndNegated(primary, mirror) ==
    /\ mirror.dims = primary.dims
    /\ Len(mirror.points) = Len(primary.points)
    /\ \A j \in 0..(primary.dims[2] - 1) :
          \A k \in 0..(primary.dims[1] - 1) :
              mirror.points[j * primary.dims[1] + k + 1]
                  = <<primary.points[j * primary.dims[1]
                                     + (primary.dims[1] - 1 - k) + 1][1],
                      -primary.points[j * primary.dims[1]
                                      + (primary.dims[1] - 1 - k) + 1][2],
                      primary.points[j * primary.dims[1]
                                     + (primary.dims[1] - 1 - k) + 1][3]>>

\* the same for the open mirrored entries of a view or an export, each
\* against the entry before it; a user flip reverses both alike
OpenMirrorsReversed(entries) ==
    \A c \in 2..Len(entries) :
        entries[c].mirrored /\ entries[c].mesh.kind = "grid" =>
            ReversedAndNegated(entries[c - 1].mesh, entries[c].mesh)

\* C5: the mirrored instance of an open mirrored surface is the primary
\* grid with y negated and the chordwise index order of every spanwise slice
\* reversed, in mesh_vehicle's result, in the view and in the export.
C5_OpenMirrorReversed ==
    /\ multiblock.state = "open" =>
          \A i \in 1..SurfaceCount :
              vehicle.surfaces[i].mirrored =>
                  ReversedAndNegated(multiblock.blocks[BlockPos(i)].mesh,
                                     multiblock.blocks[BlockPos(i) + 1].mesh)
    /\ OpenMirrorsReversed(plotter)
    /\ OpenMirrorsReversed(exported.blocks)

\* C5, the part the view and the export keep.
C5_ViewAndExport ==
    /\ OpenMirrorsReversed(plotter)
    /\ OpenMirrorsReversed(exported.blocks)

\* C6: the mirror operation (reflection across y = 0, then the face-order
\* flip for a solid or the chordwise index reversal for an open grid),
\* applied twice to any part, gives back the part: same points in the same
\* order, same faces in the same winding.
C6_MirrorInvolution ==
    /\ \A c \in 1..Len(plotter) :
          mirror_correction(mirror_correction(plotter[c].mesh,
                                              plotter[c].mesh.kind = "poly"),
                            plotter[c].mesh.kind = "poly") = plotter[c].mesh
    /\ \A c \in 1..Len(exported.blocks) :
          mirror_correction(mirror_correction(exported.blocks[c].mesh,
                                exported.blocks[c].mesh.kind = "poly"),
                            exported.blocks[c].mesh.kind = "poly")
              = exported.blocks[c].mesh
    /\ \A b \in 1..Len(multiblock.blocks) :
          MirroredMesh(MirroredMesh(multiblock.blocks[b].mesh,
                                    multiblock.state = "solid"),
                       multiblock.state = "solid") = multiblock.blocks[b].mesh

\* C6 witness: the view holds an open mirrored part and a solid part, and
\* the assembler produced a mirrored solid.
C6_Witness ==
    /\ \E c \in 1..Len(plotter) :
          plotter[c].mirrored /\ plotter[c].mesh.kind = "grid"
    /\ \E c \in 1..Len(plotter) : plotter[c].mesh.kind = "poly"
    /\ multiblock.state = "solid"
    /\ \E i \in 1..SurfaceCount : vehicle.surfaces[i].mirrored

\* part is raw with the order reversed once: every face's vertices in
\* reverse for a solid, the chordwise index of every slice in reverse for a
\* grid; the points themselves are the same
ReversedOnce(raw, part) ==
    /\ part.kind = raw.kind
    /\ Len(part.points) = Len(raw.points)
    /\ Len(part.faces) = Len(raw.faces)
    /\ IF raw.kind = "poly"
       THEN /\ part.points = raw.points
            /\ \A f \in 1..Len(raw.faces) :
                  \A n \in 1..Len(raw.faces[f]) :
                      part.faces[f][n]
                          = raw.faces[f][Len(raw.faces[f]) + 1 - n]
       ELSE \A j \in 0..(raw.dims[2] - 1) :
               \A k \in 0..(raw.dims[1] - 1) :
                   part.points[j * raw.dims[1] + k + 1]
                       = raw.points[j * raw.dims[1] + (raw.dims[1] - 1 - k) + 1]

\* an entry of the view or of the export against the raw mesh of its
\* component, when the component's flip_normals is set
FlipComposes(entry, raw) ==
    IF entry.mirrored
    THEN entry.mesh = [raw EXCEPT !.points = NegateY(@)]
    ELSE ReversedOnce(raw, entry.mesh)

FlipsCompose(entries) ==
    \A c \in 1..Len(entries) :
        Components(vehicle)[c].obj.flip_normals =>
            FlipComposes(entries[c],
                         RawMesh(Components(vehicle)[c].obj,
                                 Components(vehicle)[c].is_surface))

\* C7: in the view and in the export, a mirrored part whose flip_normals is
\* set is the raw mesh with y negated, in the raw mesh's chordwise order or
\* face winding (mirror correction and user flip cancel), and an unmirrored
\* part whose flip_normals is set is the raw mesh with the order reversed
\* exactly once, by the operation of its representation.
C7_FlipsCompose ==
    /\ FlipsCompose(plotter)
    /\ FlipsCompose(exported.blocks)

\* C7 witness: the view and the export hold a mirrored part of a surface
\* with flip_normals set, open in one vehicle's view or solid.
C7_Witness ==
    /\ exported.status = "saved"
    /\ \E c \in 1..Len(plotter) :
          /\ plotter[c].mirrored
          /\ Components(vehicle)[c].obj.flip_normals
    /\ \E c \in 1..Len(plotter) :
          /\ ~plotter[c].mirrored
          /\ plotter[c].mesh.kind = "poly"
          /\ Components(vehicle)[c].obj.flip_normals

\* C8: during one run of run_heavy_union the percent values passed to
\* progress_callback never decrease from one call to the next.
C8_ProgressMonotone ==
    \A n \in 1..(Len(progress) - 1) : progress[n] <= progress[n + 1]

\* C8 witness: a run returned after at least three refining steps and two
\* merging steps.
C8_Witness ==
    /\ outcome = "returned"
    /\ Len(solids) >= 3
    /\ Len(progress) = 1 + Len(solids) + (Len(solids) - 1)

\* C9: a run of run_heavy_union that returned a merged mesh made its last
\* progress update with percent 100.
C9_EndsAt100 ==
    outcome = "returned" => progress[Len(progress)] = 100

\* C10: a failed union leaves the accumulated mesh as the concatenation of
\* the two operands and the merge goes on with the next solid; whichever
\* unions fail, nothing is raised once merging began, and the mesh returned
\* incorporates every solid, each once, in the order of the sorted list.
C10_MergeTolerant ==
    /\ pc = "merge" => outcome = "running" /\ Len(unified) = blk
    /\ outcome = "returned" => Len(unified) = Len(solids) /\ solids # <<>>
    /\ outcome \notin {"none", "running", "returned"} => unified = <<>>
    /\ Len(unified) <= Len(solids)
    /\ \A n \in 1..Len(unified) :
          /\ unified[n].name = solids[n].name
          /\ unified[n].n_cells = solids[n].mesh.n_cells
          /\ unified[n].how \in (IF n = 1 THEN {"first"}
                                 ELSE {"boolean_union", "concatenation"})

\* C10 witness: a run returned although a union failed, and a later union
\* of the same run succeeded.
C10_Witness ==
    /\ outcome = "returned"
    /\ \E n \in 1..Len(unified) :
          /\ unified[n].how = "concatenation"
          /\ \E h \in (n + 1)..Len(unified) : unified[h].how = "boolean_union"

\* the failures run_heavy_union raises for the empty result
EmptyResult == {"ValueError: No data", "ValueError: No solids"}

\* C11: a run of run_heavy_union that produced no solid returns no mesh and
\* raises one of the empty-result failures to its caller; a vehicle with no
\* surfaces and no fuselage gives "No data"; no run that produced a solid
\* raises them.
C11_EmptyResultRaised ==
    /\ (pc = "idle" /\ outcome # "none" /\ solids = <<>>) =>
          outcome \in EmptyResult /\ unified = <<>>
    /\ (vehicle.surfaces = <<>> /\ vehicle.fuselage = <<>> /\ outcome # "none") =>
          outcome = "ValueError: No data"
    /\ outcome \in EmptyResult => solids = <<>> /\ unified = <<>>

\* C11 witness: run_heavy_union ran on the vehicle with no surfaces and no
\* fuselage and raised.
C11_Witness ==
    /\ vehicle.surfaces = <<>>
    /\ vehicle.fuselage = <<>>
    /\ pc = "idle"
    /\ outcome \in EmptyResult

\* the components of the vehicle whose generation does not fail
GoodComponents ==
    SelectSeq(Components(vehicle),
              LAMBDA comp : ~comp.is_surface \/ Len(comp.obj.stations) >= 2)

\* C12: when generating one component fails in mesh_vehicle or in the view
\* pipeline, the failure stays with that component: mesh_vehicle still
\* returns, and every component whose generation does not fail is emitted
\* or displayed.
C12_FailureContained ==
    /\ multiblock.state # "raise"
    /\ multiblock.state = "open" =>
          Len(multiblock.blocks) = Len(GoodComponents)
    /\ plotter # <<>> =>
          /\ Len(plotter) = Len(GoodComponents)
          /\ \A c \in 1..Len(plotter) :
                plotter[c].name = GoodComponents[c].obj.name

\* C13: _mesh_surface on a surface with fewer than 2 stations returns no
\* grid and signals an error, open or solid.
C13_TooFewStationsRejected ==
    (call.op = "_mesh_surface" /\ Len(call.surface.stations) < 2) =>
        call.result.kind = "raise"

\* C13 witness: _mesh_surface was called on a surface with exactly one
\* station.
C13_Witness ==
    /\ call.op = "_mesh_surface"
    /\ Len(call.surface.stations) = 1

\* C14: a mesher whose resolution is outside its range (chord_res < 3,
\* span_res < 2, fuselage_radial_res < 3, fuselage_long_res < 2) never
\* produces a grid: the call is rejected.
C14_BadResolutionRejected ==
    /\ (call.op = "surface_shape"
        /\ (call.mesher.chord_res < 3 \/ call.mesher.span_res < 2)) =>
          call.result.kind = "raise"
    /\ (call.op = "fuselage_shape"
        /\ (call.mesher.fus_rad_res < 3 \/ call.mesher.fus_long_res < 2)) =>
          call.result.kind = "raise"

\* C15: a generation call (mesh_vehicle, _mesh_surface, _mesh_fuselage, from
\* the assembler, the view, the export or the merge) leaves every field of
\* the vehicle, of its surfaces and stations and of the fuselage as it was,
\* and stores no mirrored instance in the vehicle.
C15_ModelUnchanged ==
    [][vehicle' = vehicle]_vars

\* C15 witness: the assembler and the view have generated a vehicle with a
\* mirrored surface and a fuselage.
C15_Witness ==
    /\ multiblock.state = "open"
    /\ plotter # <<>>
    /\ vehicle.fuselage # <<>>
    /\ \E i \in 1..Len(vehicle.surfaces) : vehicle.surfaces[i].mirrored

\* the j-th spanwise slice of a grid, as the sequence of its points
SliceOf(grid, j) ==
    SubSeq(grid.points, (j - 1) * grid.dims[1] + 1, j * grid.dims[1])

\* C16: the open grid of a surface with k >= 2 stations has 2*chord_res - 1
\* chordwise points and span_res + (k-2)*(span_res-1) spanwise slices, no
\* slice repeated where two segments meet; 2 stations with chord_res = 30
\* and span_res = 15 give 59 x 15 points.
C16_GridShape ==
    /\ SurfaceShapes(DefaultMesher, 2) = {GridShape(59, 15)}
    /\ (call.op = "surface_shape" /\ call.result.kind = "grid") =>
          call.result.dims
              = <<2 * call.mesher.chord_res - 1,
                  IF call.mesher.span_res = 0 THEN 0
                  ELSE call.mesher.span_res
                       + (call.k - 2) * (call.mesher.span_res - 1)>>
    /\ (call.op = "_mesh_surface" /\ ~call.solid
        /\ Len(call.surface.stations) >= 2) =>
          /\ call.result.kind = "grid"
          /\ call.result.dims
                = <<2 * ChordRes - 1,
                    SpanRes + (Len(call.surface.stations) - 2) * (SpanRes - 1)>>
          /\ Len(call.result.points)
                = call.result.dims[1] * call.result.dims[2]
          /\ SurfaceShapes(ModelMesher, Len(call.surface.stations))
                = {GridShape(call.result.dims[1], call.result.dims[2])}
          /\ \A j \in 1..(call.result.dims[2] - 1) :
                SliceOf(call.result, j) # SliceOf(call.result, j + 1)

\* C16 witness: _mesh_surface gave the open grid of a surface with three
\* stations.
C16_Witness ==
    /\ call.op = "_mesh_surface"
    /\ ~call.solid
    /\ Len(call.surface.stations) = 3
    /\ call.result.kind = "grid"

\* the loop of a station, transformed by the station, in the units of a
\* grid's points
StationLoop(st) ==
    [k \in 1..(2 * ChordRes - 1) |->
        <<(SpanRes - 1) * _position_profile(_get_airfoil_coords(st), st)[k][1],
          (SpanRes - 1) * _position_profile(_get_airfoil_coords(st), st)[k][2],
          (SpanRes - 1) * _position_profile(_get_airfoil_coords(st), st)[k][3]>>]

\* C17: for a 2-station surface with zero orientation and position, the
\* first spanwise slice of the grid of _mesh_surface is the transformed loop
\* of the first station and the last slice that of the last station, point
\* for point in the same chordwise order.
C17_EndSlicesAreStationLoops ==
    (/\ call.op = "_mesh_surface"
     /\ ~call.solid
     /\ Len(call.surface.stations) = 2
     /\ call.surface.position = <<0, 0, 0>>
     /\ call.surface.orientation = <<0, 0, 0>>) =>
        /\ SliceOf(call.result, 1) = StationLoop(call.surface.stations[1])
        /\ SliceOf(call.result, call.result.dims[2])
              = StationLoop(call.surface.stations[2])

\* C17 witness: _mesh_surface gave the open grid of an unmoved 2-station
\* surface whose two stations differ in chord, sweep and height.
C17_Witness ==
    /\ call.op = "_mesh_surface"
    /\ ~call.solid
    /\ Len(call.surface.stations) = 2
    /\ call.surface.position = <<0, 0, 0>>
    /\ call.surface.stations[1].chord # call.surface.stations[2].chord
    /\ call.result.kind = "grid"

\* C18: the loop of _get_airfoil_coords has 2N - 1 points, and its first
\* and last points are the same point (the trailing edge).
C18_LoopClosed ==
    call.op = "_get_airfoil_coords" =>
        /\ Len(call.result) = 2 * ChordRes - 1
        /\ call.result[1] = call.result[Len(call.result)]

\* C18 witness: _get_airfoil_coords was called on a cambered station with
\* reflex.
C18_Witness ==
    /\ call.op = "_get_airfoil_coords"
    /\ call.station.m > 0
    /\ call.station.p > 0
    /\ call.station.r # 0

\* the camber line is zero and the two surfaces mirror each other about
\* z = 0: at every chordwise sample k the upper point (index N - k) and the
\* lower point (index N + k) have the same x and opposite z
SymmetricLoop(loop, st) ==
    /\ \A k \in 0..(ChordRes - 1) : AirfoilYc(st, k) = 0
    /\ \A k \in 1..(ChordRes - 1) :
          /\ loop[ChordRes - k][1] = loop[ChordRes + k][1]
          /\ loop[ChordRes - k][3] = -loop[ChordRes + k][3]
    /\ loop[ChordRes][3] = 0

\* C19 as stated: for every station with m = 0, whatever p, t and r are, the
\* camber line of _get_airfoil_coords is zero and the upper and lower
\* surfaces are mirror images about z = 0.
C19_SymmetricWhenNoCamber ==
    (call.op = "_get_airfoil_coords" /\ call.station.m = 0) =>
        SymmetricLoop(call.result, call.station)

\* C19 amended: the same for every station with m = 0 and r = 0, whatever p
\* and t are.
C19_SymmetricWhenNoCamberNoReflex ==
    (call.op = "_get_airfoil_coords" /\ call.station.m = 0
     /\ call.station.r = 0) =>
        SymmetricLoop(call.result, call.station)

\* C19 witness: _get_airfoil_coords was called on a station with m = 0,
\* r = 0 and a camber position set.
C19_Witness ==
    /\ call.op = "_get_airfoil_coords"
    /\ call.station.m = 0
    /\ call.station.r = 0
    /\ call.station.p > 0
    /\ call.result[ChordRes - 1][3] # 0

\* C20: a solid surface gets its tip cap always and its root cap exactly
\* when the root ring is off the plane y = 0: 1 cap with the root on the
\* plane, 2 otherwise.
C20_RootCapOffPlaneOnly ==
    (/\ call.op = "_mesh_surface"
     /\ call.solid
     /\ Len(call.surface.stations) >= 2) =>
        /\ call.result.kind = "poly"
        /\ call.result.caps
              = IF call.surface.stations[1].y + call.surface.position[2] # 0
                THEN 2 ELSE 1

\* C20 witness: _mesh_surface gave the solid of a surface whose root
\* station is off the plane while the surface's position brings the root
\* ring back onto it.
C20_Witness ==
    /\ call.op = "_mesh_surface"
    /\ call.solid
    /\ Len(call.surface.stations) >= 2
    /\ call.surface.stations[1].y # 0
    /\ call.surface.stations[1].y + call.surface.position[2] = 0
    /\ call.result.caps = 1

\* the x of the first and of the last ring of a fuselage mesh
FrontX(mesh) ==
    CHOOSE x \in {mesh.points[i][1] : i \in 1..Len(mesh.points)} :
        \A i \in 1..Len(mesh.points) : x <= mesh.points[i][1]

BackX(mesh) ==
    CHOOSE x \in {mesh.points[i][1] : i \in 1..Len(mesh.points)} :
        \A i \in 1..Len(mesh.points) : x >= mesh.points[i][1]

\* the mesh has a face lying in the plane of abscissa x
CapAt(mesh, x) ==
    \E c \in 1..Len(mesh.faces) :
        \A v \in 1..Len(mesh.faces[c]) : mesh.points[mesh.faces[c][v]][1] = x

\* C21: in solid mode _mesh_fuselage closes the front with a cap exactly when
\* the radius at the first longitudinal sample is above the tolerance, and
\* the back exactly when the radius at the last sample is; the profile of
\* add_fuselage, of radius 0 at both ends, gets no cap.
C21_FuselageCaps ==
    (call.op = "_mesh_fuselage" /\ call.solid) =>
        LET profile == call.fuselage.profile
            front == RDense(profile, 0) > 0
            back == RDense(profile, FusLongRes - 1) > 0
        IN  /\ call.result.kind = "poly"
            /\ CapAt(call.result, FrontX(call.result)) <=> front
            /\ CapAt(call.result, BackX(call.result)) <=> back
            /\ call.result.caps = (IF front THEN 1 ELSE 0) + (IF back THEN 1 ELSE 0)
            /\ profile = <<<<0, 0>>, <<5, 4>>, <<40, 4>>, <<50, 0>>>>
                   => call.result.caps = 0

\* a solid fuselage closed at the front by its profile and capped at the back
C21_Witness ==
    /\ call.op = "_mesh_fuselage"
    /\ call.solid
    /\ RDense(call.fuselage.profile, 0) = 0
    /\ RDense(call.fuselage.profile, FusLongRes - 1) > 0
    /\ call.result.caps = 1
    /\ CapAt(call.result, BackX(call.result))

\* the names of the parts mesh_vehicle returns for v, in order
PartNames(v) ==
    LET blocks == mesh_vehicle(v, FALSE)
    IN  [b \in 1..Len(blocks) |-> blocks[b].name]

\* C22: no two parts of the collection mesh_vehicle returns for the editor's
\* vehicle share a name, so every part is addressable by its own name.
C22_PartNamesUnique ==
    LET names == PartNames(vehicle)
    IN  \A a, b \in 1..Len(names) : a # b => names[a] # names[b]

\* the edges of a face, each as the set of its two point indices
EdgesOf(f) == {{f[v], f[(v % Len(f)) + 1]} : v \in 1..Len(f)}

\* the open boundary edges of a mesh: the edges that belong to one face only
OpenEdges(mesh) ==
    LET edges == UNION {EdgesOf(mesh.faces[c]) : c \in 1..Len(mesh.faces)}
    IN  {e \in edges :
            Cardinality({c \in 1..Len(mesh.faces) : e \in EdgesOf(mesh.faces[c])}) = 1}

\* two meshes put together, coincident points merged
Combined(a, b) ==
    Clean([a EXCEPT !.points = @ \o b.points,
                    !.faces = @ \o [c \in 1..Len(b.faces) |->
                                      [v \in 1..Len(b.faces[c]) |->
                                          b.faces[c][v] + Len(a.points)]],
                    !.caps = @ + b.caps,
                    !.n_cells = @ + b.n_cells])

\* a solid surface capped at both ends has no open edge; one whose root is on
\* the plane y = 0 is open at the root and closed once its mirrored half is
\* put with it
SurfaceSolidsWatertight ==
    (call.op = "_mesh_surface" /\ call.solid /\ call.result.kind = "poly") =>
        /\ call.result.caps = 2 => OpenEdges(call.result) = {}
        /\ call.surface.stations[1].y + call.surface.position[2] = 0
               => /\ call.result.caps = 1
                  /\ OpenEdges(call.result) # {}
                  /\ OpenEdges(Combined(call.result,
                                        MirroredMesh(call.result, TRUE))) = {}

\* a solid fuselage capped at both ends has no open edge
FuselageSolidsWatertight ==
    (call.op = "_mesh_fuselage" /\ call.solid /\ call.result.caps = 2) =>
        OpenEdges(call.result) = {}

\* C23: a solid of _mesh_surface or _mesh_fuselage with both ends capped has
\* no open boundary edge; a surface whose root lies on the symmetry plane is
\* left open at the root and has no open boundary edge once it is combined
\* with its mirrored half.
C23_SolidsWatertight == SurfaceSolidsWatertight /\ FuselageSolidsWatertight

\* C24: the fuselage's profile has at least 2 points after any sequence of
\* add_fuse_point and remove_fuse_point, and remove_fuse_point on a profile of
\* exactly 2 points, whatever the current row, leaves the profile as it was.
C24_ProfilePointsKept ==
    vehicle.fuselage # <<>> =>
        /\ Len(vehicle.fuselage[1].profile) >= 2
        /\ Len(vehicle.fuselage[1].profile) = 2 =>
              \A row \in 0..2 :
                  remove_fuse_point(vehicle.fuselage[1].profile, row)
                      = vehicle.fuselage[1].profile

\* C24 witness: a fuselage whose profile was brought down to exactly 2 points
C24_Witness ==
    /\ vehicle.fuselage # <<>>
    /\ Len(vehicle.fuselage[1].profile) = 2
    /\ Len(add_fuselage(Vehicle).fuselage[1].profile) > 2

MergeFromLargest ==
    /\ pc = "merge" =>
          /\ \A a \in 1..Len(solids) :
                 solids[a].mesh.n_cells <= unified[1].n_cells
          /\ Len(unified) = blk
    /\ outcome = "returned" => Len(unified) - 1 = Len(solids) - 1

====
